---- MODULE Spec2Model ----
(***************************************************************************)
(* Model of scripts/import_agent.py: one run of the command-line tool that *)
(* loads an agent definition from a JSON file, normalizes it and submits   *)
(* it to the remote create_agent operation.                                *)
(*                                                                         *)
(* JSON / Python values are tagged records; a Python str is a sequence of  *)
(* characters so that "\n".join is computed, not assumed.                  *)
(***************************************************************************)
EXTENDS Integers, Sequences, FiniteSets, TLC

\* ---------------------------------------------------------------- bounds
MaxStrLen == 1
MaxListLen == 2

\* ---------------------------------------------------------------- values
NL == "\n"
Chars == {"a", NL}

None == [t |-> "null"]
Str(s) == [t |-> "str", s |-> s]
Num(n) == [t |-> "num", n |-> n]
List(e) == [t |-> "list", e |-> e]
Obj(o) == [t |-> "obj", o |-> o]
Unset == [t |-> "unset"]

RECURSIVE SeqsUpTo(_, _)
SeqsUpTo(S, n) ==
    IF n = 0 THEN {<< >>}
    ELSE LET shorter == SeqsUpTo(S, n - 1)
         IN  shorter \cup {Append(q, x) : q \in {r \in shorter : Len(r) = n - 1}, x \in S}

CharSeqs == SeqsUpTo(Chars, MaxStrLen)
StrValues == {Str(s) : s \in CharSeqs}
StrLists == {List(e) : e \in SeqsUpTo(StrValues, MaxListLen)}

\* Variant: tests `is not None` instead of truthiness.
Truthy_NotNone(v) == v.t \notin {"null", "unset"}

\* Python truthiness, as used by `or` (line 38) and `not` (line 39).
Truthy(v) ==
    CASE v.t = "null" -> FALSE
      [] v.t = "str"  -> Len(v.s) > 0
      [] v.t = "num"  -> v.n /= 0
      [] v.t = "list" -> Len(v.e) > 0
      [] v.t = "obj"  -> DOMAIN v.o /= {}
      [] OTHER        -> FALSE

\* dict.get(k): the value, or None when the key is absent.
DictGet(d, k) == IF k \in DOMAIN d THEN d[k] ELSE None

\* d[k] = v
DictSet(d, k, v) == [x \in DOMAIN d \cup {k} |-> IF x = k THEN v ELSE d[x]]

\* d.pop(k, None)
DictPop(d, k) == [x \in DOMAIN d \ {k} |-> d[x]]

\* Variant: concatenates the elements without the separator.
RECURSIVE Join_NoSep(_, _)
Join_NoSep(sep, xs) ==
    IF Len(xs) = 0 THEN << >>
    ELSE xs[1].s \o Join_NoSep(sep, Tail(xs))

\* sep.join(xs) for a list of Python strings (each a character sequence).
RECURSIVE Join(_, _)
Join(sep, xs) ==
    IF Len(xs) = 0 THEN << >>
    ELSE IF Len(xs) = 1 THEN xs[1].s
    ELSE xs[1].s \o sep \o Join(sep, Tail(xs))

\* str.join raises TypeError unless every element is a str.
AllStr(xs) == \A i \in 1..Len(xs) : xs[i].t = "str"

\* Variant: the document's own name takes precedence over the override.
TargetName_DocFirst(override, d) ==
    IF Truthy(DictGet(d, "name")) THEN DictGet(d, "name") ELSE override

\* agent_name or definition.get("name")  (definition is a dict)
TargetName(override, d) ==
    IF Truthy(override) THEN override ELSE DictGet(d, "name")

\* ---------------------------------------------------------------- inputs
NameValues == {None, Str(<< >>), Str(<<"d">>), Num(0), Num(7)}
ModelValues == {Str(<<"m">>), Str(<<"g">>)}
InstrValues ==
    StrValues \cup StrLists
      \cup {None, Num(3), List(<<Num(1)>>), List(<<Str(<<"a">>), None>>)}
MemoryValues == {None, Num(1), Obj([x |-> Num(1)])}
ToolsValues == {List(<<Str(<<"t">>)>>)}

\* One optional key: absent, or present with one of the values.
Opt(k, vals) == {<< >>} \cup {[x \in {k} |-> v] : v \in vals}

Merge(f, g) == [x \in DOMAIN f \cup DOMAIN g |-> IF x \in DOMAIN f THEN f[x] ELSE g[x]]

Documents ==
    {Obj(Merge(n, Merge(m, Merge(i, Merge(y, o))))) :
        n \in Opt("name", NameValues),
        m \in Opt("model", {Str(<<"m">>)}),
        i \in Opt("instructions", InstrValues),
        y \in Opt("memory", MemoryValues),
        o \in Opt("tools", ToolsValues)}

\* Parseable JSON whose top-level value is not an object.
NonObjects == {List(<< >>), Str(<<"a">>)}

Overrides == {None, Str(<< >>), Str(<<"o">>)}
Endpoints == {"https://p"}
Responses == [name : {"n1", "n2"}, id : {"v1"}, status : {"active", "creating"}]

VARIABLES
    pc,              \* position of the run
    fileState,       \* "missing" | "unreadable" | "malformed" | "ok"
    fileContent,     \* the JSON value stored in the file (when it parses)
    endpoint,        \* args.endpoint
    agent_name,      \* args.agent_name (None when the flag is omitted)
    model,           \* args.model
    project_client,  \* the client built at lines 32-33
    definition,      \* the in-memory document
    target_name,     \* line 38
    calls,           \* bodies received by the remote create_agent operation
    result,          \* value returned by the awaited call
    stdout,          \* lines printed
    error,           \* the exception that unwound the run, "none" if none
    exitStatus       \* -1 while running, then the process status

vars == <<pc, fileState, fileContent, endpoint, agent_name, model,
          project_client, definition, target_name, calls, result, stdout,
          error, exitStatus>>

inputs == <<fileState, fileContent, endpoint, agent_name, model>>

IsDict(v) == v.t = "obj"

Init ==
    /\ pc = "exists"
    /\ fileState \in {"missing", "unreadable", "malformed", "ok"}
    /\ IF fileState = "ok"
         THEN fileContent \in Documents \cup NonObjects
         ELSE fileContent = Unset
    /\ endpoint \in Endpoints
    /\ agent_name \in Overrides
    /\ model \in ModelValues
    /\ project_client = Unset
    /\ definition = Unset
    /\ target_name = Unset
    /\ calls = << >>
    /\ result = Unset
    /\ stdout = << >>
    /\ error = "none"
    /\ exitStatus = -1

\* An uncaught exception unwinds through asyncio.run: traceback, status 1.
Raise(e) ==
    /\ pc' = "failed"
    /\ error' = e
    /\ exitStatus' = 1

\* main, lines 63-65
CheckExists ==
    /\ pc = "exists"
    /\ IF fileState = "missing"
         THEN Raise("FileNotFoundError")
         ELSE pc' = "client" /\ UNCHANGED <<error, exitStatus>>
    /\ UNCHANGED <<inputs, project_client, definition, target_name, calls,
                   result, stdout>>

\* import_agent, lines 32-33
MakeClient ==
    /\ pc = "client"
    /\ project_client' = [endpoint |-> endpoint]
    /\ pc' = "load"
    /\ UNCHANGED <<inputs, definition, target_name, calls, result, stdout,
                   error, exitStatus>>

\* import_agent, lines 35-36
LoadDefinition ==
    /\ pc = "load"
    /\ CASE fileState = "unreadable" ->
              Raise("OSError") /\ UNCHANGED definition
         [] fileState = "malformed" ->
              Raise("JSONDecodeError") /\ UNCHANGED definition
         [] OTHER ->
              /\ definition' = fileContent
              /\ pc' = "resolve"
              /\ UNCHANGED <<error, exitStatus>>
    /\ UNCHANGED <<inputs, project_client, target_name, calls, result, stdout>>

\* Variant: the missing-name check is absent.
ResolveName_NoRaise ==
    /\ pc = "resolve"
    /\ IF ~Truthy(agent_name) /\ ~IsDict(definition)
         THEN Raise("AttributeError") /\ UNCHANGED target_name
         ELSE /\ target_name' = IF IsDict(definition)
                                  THEN TargetName(agent_name, definition.o)
                                  ELSE agent_name
              /\ pc' = "set_name"
              /\ UNCHANGED <<error, exitStatus>>
    /\ UNCHANGED <<inputs, project_client, definition, calls, result, stdout>>

\* Variant: name and model are written into the document before the check.
ResolveName_AssignFirst ==
    /\ pc = "resolve"
    /\ IF ~Truthy(agent_name) /\ ~IsDict(definition)
         THEN Raise("AttributeError") /\ UNCHANGED <<target_name, definition>>
         ELSE LET tn == IF IsDict(definition)
                          THEN TargetName(agent_name, definition.o)
                          ELSE agent_name
              IN  /\ target_name' = tn
                  /\ definition' = IF IsDict(definition)
                                     THEN Obj(DictSet(DictSet(definition.o, "name", tn),
                                                      "model", model))
                                     ELSE definition
                  /\ IF ~Truthy(tn)
                       THEN Raise("ValueError")
                       ELSE pc' = "set_name" /\ UNCHANGED <<error, exitStatus>>
    /\ UNCHANGED <<inputs, project_client, calls, result, stdout>>

\* import_agent, lines 38-40
ResolveName ==
    /\ pc = "resolve"
    /\ IF ~Truthy(agent_name) /\ ~IsDict(definition)
         THEN Raise("AttributeError") /\ UNCHANGED target_name
         ELSE LET tn == IF IsDict(definition)
                          THEN TargetName(agent_name, definition.o)
                          ELSE agent_name
              IN  /\ target_name' = tn
                  /\ IF ~Truthy(tn)
                       THEN Raise("ValueError")
                       ELSE pc' = "set_name" /\ UNCHANGED <<error, exitStatus>>
    /\ UNCHANGED <<inputs, project_client, definition, calls, result, stdout>>

\* import_agent, line 42
SetName ==
    /\ pc = "set_name"
    /\ IF IsDict(definition)
         THEN /\ definition' = Obj(DictSet(definition.o, "name", target_name))
              /\ pc' = "set_model"
              /\ UNCHANGED <<error, exitStatus>>
         ELSE Raise("TypeError") /\ UNCHANGED definition
    /\ UNCHANGED <<inputs, project_client, target_name, calls, result, stdout>>

\* Variant: an existing model field is kept (setdefault).
SetModel_KeepExisting ==
    /\ pc = "set_model"
    /\ definition' = IF "model" \in DOMAIN definition.o
                       THEN definition
                       ELSE Obj(DictSet(definition.o, "model", model))
    /\ pc' = "join"
    /\ UNCHANGED <<inputs, project_client, target_name, calls, result, stdout,
                   error, exitStatus>>

\* import_agent, line 43
SetModel ==
    /\ pc = "set_model"
    /\ definition' = Obj(DictSet(definition.o, "model", model))
    /\ pc' = "join"
    /\ UNCHANGED <<inputs, project_client, target_name, calls, result, stdout,
                   error, exitStatus>>

\* Variant: joins definition.get("instructions", []) whenever it is not a str.
JoinInstructions_DefaultList ==
    /\ pc = "join"
    /\ LET ins == IF "instructions" \in DOMAIN definition.o
                    THEN definition.o["instructions"]
                    ELSE List(<< >>)
       IN  IF ins.t = "list"
             THEN IF AllStr(ins.e)
                    THEN /\ definition' = Obj(DictSet(definition.o, "instructions",
                                                     Str(Join(<<NL>>, ins.e))))
                         /\ pc' = "pop"
                         /\ UNCHANGED <<error, exitStatus>>
                    ELSE Raise("TypeError") /\ UNCHANGED definition
             ELSE /\ pc' = "pop"
                  /\ UNCHANGED <<definition, error, exitStatus>>
    /\ UNCHANGED <<inputs, project_client, target_name, calls, result, stdout>>

\* import_agent, lines 45-46
JoinInstructions ==
    /\ pc = "join"
    /\ LET ins == DictGet(definition.o, "instructions")
       IN  IF ins.t = "list"
             THEN IF AllStr(ins.e)
                    THEN /\ definition' = Obj(DictSet(definition.o, "instructions",
                                                     Str(Join(<<NL>>, ins.e))))
                         /\ pc' = "pop"
                         /\ UNCHANGED <<error, exitStatus>>
                    ELSE Raise("TypeError") /\ UNCHANGED definition
             ELSE /\ pc' = "pop"
                  /\ UNCHANGED <<definition, error, exitStatus>>
    /\ UNCHANGED <<inputs, project_client, target_name, calls, result, stdout>>

\* Variant: the key is removed only when its value is truthy.
PopMemory_TruthyOnly ==
    /\ pc = "pop"
    /\ definition' = IF Truthy(DictGet(definition.o, "memory"))
                       THEN Obj(DictPop(definition.o, "memory"))
                       ELSE definition
    /\ pc' = "call"
    /\ UNCHANGED <<inputs, project_client, target_name, calls, result, stdout,
                   error, exitStatus>>

\* import_agent, line 49
PopMemory ==
    /\ pc = "pop"
    /\ definition' = Obj(DictPop(definition.o, "memory"))
    /\ pc' = "call"
    /\ UNCHANGED <<inputs, project_client, target_name, calls, result, stdout,
                   error, exitStatus>>

\* import_agent, line 51: the request is issued and the coroutine suspends.
CallCreateAgent ==
    /\ pc = "call"
    /\ calls' = Append(calls, definition)
    /\ pc' = "await"
    /\ UNCHANGED <<inputs, project_client, definition, target_name, result,
                   stdout, error, exitStatus>>

\* import_agent, lines 51-52 and main, line 67: the remote call returns.
RemoteReturn ==
    /\ pc = "await"
    /\ \E r \in Responses : result' = r
    /\ pc' = "print"
    /\ UNCHANGED <<inputs, project_client, definition, target_name, calls,
                   stdout, error, exitStatus>>

\* Variant: a failed call is issued again.
RemoteFail_Retry ==
    /\ pc = "await"
    /\ pc' = "call"
    /\ UNCHANGED <<inputs, project_client, definition, target_name, calls,
                   result, stdout, error, exitStatus>>

\* import_agent, line 51: the remote call fails; nothing catches the error.
RemoteFail ==
    /\ pc = "await"
    /\ Raise("RemoteError")
    /\ UNCHANGED <<inputs, project_client, definition, target_name, calls,
                   result, stdout>>

\* Variant: the id and status fields are swapped in the summary.
PrintSummary_Swapped ==
    /\ pc = "print"
    /\ stdout' = stdout \o << <<"Agent imported:">>,
                              <<"Name:", result.name>>,
                              <<"Version ID:", result.status>>,
                              <<"Status:", result.id>> >>
    /\ pc' = "done"
    /\ exitStatus' = 0
    /\ UNCHANGED <<inputs, project_client, definition, target_name, calls,
                   result, error>>

\* main, lines 68-71, then the program falls off its end (line 75).
PrintSummary ==
    /\ pc = "print"
    /\ stdout' = stdout \o << <<"Agent imported:">>,
                              <<"Name:", result.name>>,
                              <<"Version ID:", result.id>>,
                              <<"Status:", result.status>> >>
    /\ pc' = "done"
    /\ exitStatus' = 0
    /\ UNCHANGED <<inputs, project_client, definition, target_name, calls,
                   result, error>>

Next ==
    \/ CheckExists
    \/ MakeClient
    \/ LoadDefinition
    \/ ResolveName
    \/ SetName
    \/ SetModel
    \/ JoinInstructions
    \/ PopMemory
    \/ CallCreateAgent
    \/ RemoteReturn
    \/ RemoteFail
    \/ PrintSummary

Spec == Init /\ [][Next]_vars

\* ------------------------------------------------------- property helpers
Src == fileContent.o
Submitted == calls /= << >>
Body == calls[1].o
Empty(v) == v = None \/ v = Str(<< >>)
OverrideGiven == ~Empty(agent_name)
SrcIsObject == fileState = "ok" /\ fileContent.t = "obj"
BeforeResolve == pc \in {"exists", "client", "load", "resolve"}
InputErrors == {"FileNotFoundError", "JSONDecodeError", "ValueError"}
Summary(r) == << <<"Agent imported:">>, <<"Name:", r.name>>,
                 <<"Version ID:", r.id>>, <<"Status:", r.status>> >>

\* The newline join, built from the last element backwards.
RECURSIVE NewlineJoined(_)
NewlineJoined(xs) ==
    IF Len(xs) = 0 THEN << >>
    ELSE IF Len(xs) = 1 THEN xs[1].s
    ELSE NewlineJoined(SubSeq(xs, 1, Len(xs) - 1)) \o <<NL>> \o xs[Len(xs)].s

IsStrList(v) == v.t = "list" /\ \A i \in 1..Len(v.e) : v.e[i].t = "str"

\* The join step (lines 45-46) has been executed in this run.
JoinActed ==
    \/ pc \in {"pop", "call", "await", "print", "done"}
    \/ pc = "failed" /\ error = "RemoteError"
    \/ pc = "failed" /\ error = "TypeError" /\ definition.t = "obj"

\* C1: a run that ends in an input error (missing file, unparseable JSON,
\* no effective name) never invokes create_agent; the remote call happens
\* only after the existence check, the load and the whole normalization
\* have succeeded.
C1_NoRemoteCallOnInputError ==
    /\ error \in InputErrors => ~Submitted
    /\ fileState \in {"missing", "malformed"} => ~Submitted
    /\ (SrcIsObject /\ ~OverrideGiven /\ Empty(DictGet(Src, "name"))) => ~Submitted
    /\ Submitted =>
         /\ SrcIsObject
         /\ pc \in {"await", "print", "done", "failed"}
         /\ definition = calls[1]
         /\ {"name", "model"} \subseteq DOMAIN Body
         /\ "memory" \notin DOMAIN Body
         /\ DictGet(Body, "instructions").t /= "list"

C1_Witness ==
    pc = "failed" /\ error = "ValueError" /\ ~Submitted /\ SrcIsObject

\* C2: a document without a name field and no --agent-name override fails
\* with the ValueError before the remote call and before the document is
\* modified.
C2_MissingNameFailsFirst ==
    (SrcIsObject /\ "name" \notin DOMAIN Src /\ agent_name = None /\ ~BeforeResolve)
      => /\ pc = "failed"
         /\ error = "ValueError"
         /\ ~Submitted
         /\ definition = fileContent

C2_Witness ==
    /\ SrcIsObject /\ "name" \notin DOMAIN Src /\ agent_name = None
    /\ pc = "failed" /\ error = "ValueError"
    /\ {"model", "instructions", "memory"} \subseteq DOMAIN Src

\* C3: with a non-empty override the submitted name is the override whatever
\* the document says; without an override and with a non-empty document name
\* the submitted name is the document's original name.
C3_EffectiveName ==
    Submitted =>
      /\ OverrideGiven => Body["name"] = agent_name
      /\ (~OverrideGiven /\ ~Empty(DictGet(Src, "name"))) => Body["name"] = Src["name"]

C3_Witness ==
    /\ Submitted /\ OverrideGiven
    /\ "name" \in DOMAIN Src /\ ~Empty(Src["name"]) /\ Src["name"] /= agent_name

\* C4: in every run that reaches the remote call the submitted model is the
\* --model argument, whatever the document's own model field was.
C4_ModelOverwritten ==
    Submitted => Body["model"] = model

C4_Witness ==
    Submitted /\ "model" \in DOMAIN Src /\ Src["model"] /= model

\* C5 as stated: once the join step has run, a list of strings has become
\* the newline join, a string is unchanged, and a value of any other type
\* (or an absent key) is passed through unmodified.
C5_AnyOtherTypePassesThrough ==
    (SrcIsObject /\ JoinActed) =>
      /\ pc /= "failed" \/ error = "RemoteError"
      /\ "instructions" \in DOMAIN definition.o <=> "instructions" \in DOMAIN Src
      /\ "instructions" \in DOMAIN Src =>
           definition.o["instructions"] =
             IF IsStrList(Src["instructions"])
               THEN Str(NewlineJoined(Src["instructions"].e))
               ELSE Src["instructions"]

\* C5 (amended): a list of strings becomes the newline join in order, a
\* string is unchanged, a non-list value or an absent key is passed through
\* unmodified, and a list holding a non-string element makes the join raise
\* TypeError, ending the run before the remote call.
C5_InstructionsNormalized ==
    (SrcIsObject /\ JoinActed) =>
      LET ins == DictGet(Src, "instructions")
      IN  IF ins.t = "list" /\ ~IsStrList(ins)
            THEN /\ pc = "failed" /\ error = "TypeError"
                 /\ ~Submitted
                 /\ definition.o["instructions"] = ins
            ELSE /\ pc /= "failed" \/ error = "RemoteError"
                 /\ "instructions" \in DOMAIN definition.o <=> "instructions" \in DOMAIN Src
                 /\ "instructions" \in DOMAIN Src =>
                      definition.o["instructions"] =
                        IF ins.t = "list" THEN Str(NewlineJoined(ins.e)) ELSE ins
                 /\ Submitted => DictGet(Body, "instructions") = DictGet(definition.o, "instructions")

C5_Witness ==
    /\ Submitted
    /\ "instructions" \in DOMAIN Src
    /\ Src["instructions"].t = "list" /\ Len(Src["instructions"].e) = 2
    /\ Src["instructions"].e[1] /= Src["instructions"].e[2]
    /\ Len(Body["instructions"].s) = 3

\* C6: the submitted body never has a memory key, and for a document without
\* the key the removal step changes nothing and raises nothing.
C6_MemoryStripped ==
    /\ [](Submitted => "memory" \notin DOMAIN Body)
    /\ [][(pc = "pop" /\ "memory" \notin DOMAIN definition.o)
            => (definition' = definition /\ pc' = "call" /\ error' = "none")]_vars

C6_Witness ==
    Submitted /\ "memory" \in DOMAIN Src /\ Src["memory"] = None

\* C7: every source key other than name, model, instructions and memory is
\* submitted with its original value, and the body has no key that is
\* neither a source key nor name or model.
C7_PassthroughFrame ==
    Submitted =>
      /\ \A k \in DOMAIN Src \ {"name", "model", "instructions", "memory"} :
            k \in DOMAIN Body /\ Body[k] = Src[k]
      /\ DOMAIN Body \subseteq DOMAIN Src \cup {"name", "model"}

C7_Witness ==
    /\ Submitted /\ "tools" \in DOMAIN Src
    /\ "instructions" \notin DOMAIN Src /\ "name" \notin DOMAIN Src

\* C8: create_agent is invoked at most once; when the call fails nothing is
\* retried, the error propagates and the run ends in an error state.
C8_AtMostOneCall ==
    /\ [](Len(calls) <= 1)
    /\ [](error = "RemoteError" =>
            pc = "failed" /\ exitStatus = 1 /\ Len(calls) = 1 /\ result = Unset)
    /\ [][pc = "failed" => (pc' = "failed" /\ calls' = calls)]_vars

C8_Witness ==
    pc = "failed" /\ error = "RemoteError" /\ Len(calls) = 1

\* C9: the success summary (name, id as Version ID, status of the response)
\* is printed exactly when the remote call has returned, and after it; a
\* failed run prints nothing and ends non-zero, a successful run ends 0.
C9_SummaryOnlyOnSuccess ==
    /\ stdout /= << >> =>
         result /= Unset /\ Len(calls) = 1 /\ stdout = Summary(result)
    /\ result /= Unset => pc \in {"print", "done"} /\ error = "none"
    /\ pc = "done" => stdout = Summary(result) /\ exitStatus = 0 /\ error = "none"
    /\ pc = "failed" => stdout = << >> /\ exitStatus /= 0 /\ error /= "none"
    /\ exitStatus = 0 => pc = "done"
    /\ pc \notin {"done", "failed"} => stdout = << >> /\ exitStatus = -1

C9_Witness ==
    pc = "done" /\ stdout = Summary(result) /\ result.status = "creating"

\* C10: an empty override is ignored in favour of the document's name; a
\* document whose name is empty or null, without a non-empty override, fails
\* with the missing-name ValueError; every submitted body has a non-empty
\* name.
C10_EmptyCountsAsAbsent ==
    /\ (Submitted /\ agent_name = Str(<< >>)) => Body["name"] = DictGet(Src, "name")
    /\ (SrcIsObject /\ ~OverrideGiven /\ ~BeforeResolve
          /\ "name" \in DOMAIN Src /\ Empty(Src["name"]))
         => pc = "failed" /\ error = "ValueError" /\ ~Submitted
    /\ Submitted => ~Empty(Body["name"])

C10_Witness ==
    /\ Submitted /\ agent_name = Str(<< >>)
    /\ Body["name"] = Src["name"]

====
